---- MODULE Spec2Model ----
(***************************************************************************)
(* Client-side workflow core of the cutAI video editor:                    *)
(*   - the animation workflow hook (useAnimationWorkflow),                 *)
(*   - the enhancement workflow hook (useEnhancementWorkflow),             *)
(*   - the timeline drag gesture (EnhancementTimeline),                    *)
(*   - the chat stream reconciler and edit-action extraction (useVideoChat)*)
(*   - the active-caption lookup (CaptionOverlay),                         *)
(*   - the video analysis hook and its callers (useVideoAnalysis),         *)
(*   - the preview's playback position (VideoPreview, VideoTimeline),      *)
(*   - the caption settings edited in the caption editor panel.            *)
(* Each subsystem has its own specification over its own variables; the    *)
(* variables of the other subsystems stay at their parked value.           *)
(***************************************************************************)
EXTENDS Integers, Sequences, FiniteSets, TLC

VARIABLES
  workflow,       \* useAnimationWorkflow: the AnimationWorkflow state object
  inflight,       \* animation remote calls awaiting their promise
  thrown,         \* what the last animation operation threw to its caller ("none" if nothing)
  furthest,       \* index of the furthest step the workflow's own operations have entered
  enhWorkflow,    \* useEnhancementWorkflow: the EnhancementWorkflow state object
  analysing,      \* analyze-enhancements calls awaiting their promise
  analyses,       \* analyses that have delivered suggestions (feeds the enhancement ids)
  batch,          \* the running generateApproved call: its closure and loop position
  toast,          \* the last toast of generateApproved
  clips,          \* EnhancementTimeline: start and end time of each clip, in ticks
  duration,       \* the media duration handed to the timeline, in ticks
  dragState,      \* the drag session, NoDrag when idle
  lastTiming,     \* the last onUpdateTiming call: its arguments and the deltaTime behind them
  payload,        \* useVideoChat: everything the response body will deliver, as symbols
  stream,         \* the part of the body not yet read
  textBuffer,     \* sendMessage's textBuffer
  assistantContent, \* sendMessage's assistantContent
  userContent,    \* the content argument of the running sendMessage
  messages,       \* the ChatMessage list
  isProcessing,   \* the isProcessing flag
  editAction,     \* what the last sendMessage resolved with
  chatPc,         \* where sendMessage stands: idle, fetching, streaming, done, failed
  segments,       \* CaptionOverlay: the segments prop, <<>> with hasSegments FALSE for null
  hasSegments,    \* whether the segments prop is an array
  captionsEnabled, \* settings.enabled
  currentTime,    \* the currentTime prop
  currentCaption, \* the memoised lookup result: the index found, 0 for null
  analysis,       \* useVideoAnalysis: the VideoAnalysis state, present FALSE for null
  videoCalls,     \* analyzeVideo / generateCaptions calls awaiting a promise
  uncaught,       \* the operations whose rejection no caller has handled
  isAnalyzing,    \* the isAnalyzing flag
  isGeneratingCaptions, \* the isGeneratingCaptions flag
  videoToast,     \* the last toast of useVideoAnalysis
  previewTime,    \* VideoPreview: the currentTime state
  previewDuration, \* VideoPreview: the duration state
  videoTime,      \* the video element's currentTime
  mediaDuration,  \* the video element's duration
  markers,        \* timestamps of the key-moment and scene-change markers
  pendingClick,   \* EnhancementTimeline: where the click that ends a gesture will land
  lastSeek,       \* the last onSeek call of the timeline
  captionSettings \* EditorWorkspace: the captionSettings state

animVars == <<workflow, inflight, thrown, furthest>>

enhVars == <<enhWorkflow, analysing, analyses, batch, toast>>

dragVars == <<clips, duration, dragState, lastTiming>>

chatVars ==
  <<payload, stream, textBuffer, assistantContent, userContent, messages,
    isProcessing, editAction, chatPc>>

captionVars == <<segments, hasSegments, captionsEnabled, currentTime, currentCaption>>

videoVars == <<analysis, videoCalls, uncaught, isAnalyzing, isGeneratingCaptions, videoToast>>

playerVars == <<previewTime, previewDuration, videoTime, mediaDuration, markers>>

gestureVars == <<pendingClick, lastSeek>>

settingsVars == <<captionSettings>>

vars == <<animVars, enhVars, dragVars, chatVars, captionVars, videoVars, playerVars, gestureVars, settingsVars>>

\* a step of one subsystem leaves the others alone
AnimFrame == UNCHANGED <<enhVars, dragVars, chatVars, captionVars, videoVars, playerVars, gestureVars, settingsVars>>

EnhFrame == UNCHANGED <<animVars, dragVars, chatVars, captionVars, videoVars, playerVars, gestureVars, settingsVars>>

DragFrame == UNCHANGED <<animVars, enhVars, chatVars, captionVars, videoVars, playerVars, gestureVars, settingsVars>>

ChatFrame == UNCHANGED <<animVars, enhVars, dragVars, captionVars, videoVars, playerVars, gestureVars, settingsVars>>

CaptionFrame == UNCHANGED <<animVars, enhVars, dragVars, chatVars, videoVars, playerVars, gestureVars, settingsVars>>

VideoFrame == UNCHANGED <<animVars, enhVars, dragVars, chatVars, captionVars, playerVars, gestureVars, settingsVars>>

PlayerFrame == UNCHANGED <<animVars, enhVars, dragVars, chatVars, captionVars, videoVars, gestureVars, settingsVars>>

\* a step of the timeline that also settles where the click lands
GestureFrame == UNCHANGED <<animVars, enhVars, chatVars, captionVars, videoVars, playerVars, settingsVars>>

SettingsFrame == UNCHANGED <<animVars, enhVars, dragVars, chatVars, captionVars, videoVars, playerVars, gestureVars>>

NULL == "null"

\* ---------------------------------------------------------------- helpers

Range(s) == {s[i] : i \in 1..Len(s)}

Max(a, b) == IF a >= b THEN a ELSE b

Min(a, b) == IF a <= b THEN a ELSE b

RECURSIVE FlatMap(_)
FlatMap(ss) == IF ss = <<>> THEN <<>> ELSE Head(ss) \o FlatMap(Tail(ss))

RECURSIVE FilterOut(_, _)
FilterOut(s, x) ==
  IF s = <<>> THEN <<>>
  ELSE IF Head(s) = x THEN FilterOut(Tail(s), x)
       ELSE <<Head(s)>> \o FilterOut(Tail(s), x)

RemoveAt(s, i) == SubSeq(s, 1, i - 1) \o SubSeq(s, i + 1, Len(s))

\* ------------------------------------------------- animation workflow hook

MaxInflight == 1
MaxApproved == 2

stepOrder ==
  <<"context-analysis", "style-selection", "storyboard-generation",
    "element-review", "animation-preview", "final-integration">>

StepIndex(step) == (CHOOSE i \in 1..Len(stepOrder) : stepOrder[i] = step) - 1

Steps == Range(stepOrder)

Contexts == {"ctx1"}

Storyboards == {"sb1", "sb2"}

\* scenes of a storyboard, each scene the ids of its elements
Scenes(sb) ==
  IF sb = "sb1" THEN << <<"e1">>, <<"e2">> >> ELSE << <<"e2">> >>

ElementIds == {"e1", "e2"}

MissingInputMsg == "Video file, URL, or existing transcript required"
RemoteErrorMsg == "remote call failed"

\* updateWorkflow: setWorkflow(prev => ({...prev, ...updates}))
updateWorkflow(prev, updates) ==
  [f \in DOMAIN prev |-> IF f \in DOMAIN updates THEN updates[f] ELSE prev[f]]

InitialWorkflow ==
  [status |-> "idle", currentStep |-> "context-analysis", progress |-> 0,
   videoContext |-> NULL, storyboard |-> NULL, approvedElements |-> <<>>,
   errorMessage |-> NULL]

AnimParked ==
  /\ workflow = InitialWorkflow
  /\ inflight = <<>>
  /\ thrown = "none"
  /\ furthest = 0

AnimInit == AnimParked

Entered(wf) == Max(furthest, StepIndex(wf.currentStep))

selectInput_blobAccepted(videoFile, videoUrl, existingTranscript) ==
  IF videoFile THEN "file"
  ELSE IF videoUrl # "none" THEN "url"
  ELSE IF existingTranscript THEN "transcript"
  ELSE "none"

\* the if / else-if chain that fills requestBody: the input the request is
\* built from, "none" for the branch that throws
selectInput(videoFile, videoUrl, existingTranscript) ==
  IF videoFile THEN "file"
  ELSE IF videoUrl # "none" /\ videoUrl # "blob" THEN "url"
  ELSE IF existingTranscript THEN "transcript"
  ELSE "none"

\* analyzeContext up to its first await: the optimistic update, the input
\* selection, and either the throw for no usable input or the suspended call.
analyzeContext(videoFile, videoUrl, existingTranscript) ==
  /\ LET started == updateWorkflow(workflow,
                        [status |-> "analyzing", currentStep |-> "context-analysis",
                         progress |-> 10, errorMessage |-> NULL])
         input == selectInput(videoFile, videoUrl, existingTranscript)
       IN
       IF input = "file"
       THEN /\ Len(inflight) < MaxInflight
            /\ thrown' = "none"
            /\ inflight' = Append(inflight, [op |-> "analyzeContext", phase |-> "encode"])
            /\ workflow' = started
            /\ furthest' = Entered(started)
       ELSE IF input # "none"
       THEN /\ Len(inflight) < MaxInflight
            /\ thrown' = "none"
            /\ inflight' = Append(inflight, [op |-> "analyzeContext", phase |-> "invoke"])
            /\ workflow' = updateWorkflow(started, [progress |-> 30])
            /\ furthest' = Entered(started)
       ELSE /\ thrown' = "MissingInput"
            /\ inflight' = inflight
            /\ workflow' = updateWorkflow(started,
                             [status |-> "error", errorMessage |-> MissingInputMsg,
                              progress |-> 0])
            /\ furthest' = Entered(started)
  /\ AnimFrame

analyzeContextFailed_clearing(wf) ==
  updateWorkflow(wf, [status |-> "error", errorMessage |-> RemoteErrorMsg, progress |-> 0,
                      videoContext |-> NULL, storyboard |-> NULL,
                      approvedElements |-> <<>>])

\* the catch block of analyzeContext
analyzeContextFailed(wf) ==
  updateWorkflow(wf, [status |-> "error", errorMessage |-> RemoteErrorMsg, progress |-> 0])

\* fileToBase64 settles: the request is sent, or the read error is caught
analyzeContextEncoded(i, ok) ==
  /\ i \in 1..Len(inflight)
  /\ inflight[i] = [op |-> "analyzeContext", phase |-> "encode"]
  /\ IF ok
     THEN /\ workflow' = updateWorkflow(workflow, [progress |-> 30])
          /\ inflight' = [inflight EXCEPT ![i].phase = "invoke"]
          /\ thrown' = "none"
     ELSE /\ workflow' = analyzeContextFailed(workflow)
          /\ inflight' = RemoveAt(inflight, i)
          /\ thrown' = "RemoteError"
  /\ furthest' = Entered(workflow')
  /\ AnimFrame

\* supabase.functions.invoke('analyze-context') settles
analyzeContextSettled(i, result) ==
  /\ i \in 1..Len(inflight)
  /\ inflight[i] = [op |-> "analyzeContext", phase |-> "invoke"]
  /\ inflight' = RemoveAt(inflight, i)
  /\ IF result \in Contexts
     THEN /\ workflow' = updateWorkflow(workflow,
                           [videoContext |-> result, currentStep |-> "style-selection",
                            progress |-> 50, status |-> "reviewing"])
          /\ thrown' = "none"
     ELSE /\ workflow' = analyzeContextFailed(workflow)
          /\ thrown' = "RemoteError"
  /\ furthest' = Entered(workflow')
  /\ AnimFrame

hasVideoContext_unchecked(wf) == TRUE

\* the guard at the top of generateStoryboard
hasVideoContext(wf) == wf.videoContext # NULL

\* generateStoryboard up to its await
generateStoryboard ==
  /\ AnimFrame
  /\ IF ~hasVideoContext(workflow)
       THEN /\ thrown' = "PreconditionError"
            /\ UNCHANGED <<workflow, inflight, furthest>>
       ELSE /\ Len(inflight) < MaxInflight
            /\ workflow' = updateWorkflow(workflow,
                             [status |-> "generating", currentStep |-> "storyboard-generation",
                              progress |-> 60])
            /\ inflight' = Append(inflight, [op |-> "generateStoryboard", phase |-> "invoke"])
            /\ thrown' = "none"
            /\ furthest' = Entered(workflow')

\* supabase.functions.invoke('generate-storyboard') settles
generateStoryboardSettled(i, result) ==
  /\ i \in 1..Len(inflight)
  /\ inflight[i] = [op |-> "generateStoryboard", phase |-> "invoke"]
  /\ inflight' = RemoveAt(inflight, i)
  /\ IF result \in Storyboards
     THEN /\ workflow' = updateWorkflow(workflow,
                           [storyboard |-> result, currentStep |-> "element-review",
                            progress |-> 80, status |-> "reviewing"])
          /\ thrown' = "none"
     ELSE /\ workflow' = updateWorkflow(workflow,
                           [status |-> "error", errorMessage |-> RemoteErrorMsg])
          /\ thrown' = "RemoteError"
  /\ furthest' = Entered(workflow')
  /\ AnimFrame

\* [...prev.approvedElements, elementId]
addApproved(approved, elementId) == Append(approved, elementId)

approveElement(elementId) ==
  /\ Len(workflow.approvedElements) < MaxApproved
  /\ workflow' = [workflow EXCEPT
                    !.approvedElements = addApproved(workflow.approvedElements, elementId)]
  /\ thrown' = "none"
  /\ UNCHANGED <<inflight, furthest>>
  /\ AnimFrame

unapproveElement(elementId) ==
  /\ workflow' = [workflow EXCEPT
                    !.approvedElements = FilterOut(workflow.approvedElements, elementId)]
  /\ thrown' = "none"
  /\ UNCHANGED <<inflight, furthest>>
  /\ AnimFrame

approveAllElements ==
  /\ workflow' = IF workflow.storyboard = NULL THEN workflow
                 ELSE [workflow EXCEPT
                         !.approvedElements = FlatMap(Scenes(workflow.storyboard))]
  /\ thrown' = "none"
  /\ UNCHANGED <<inflight, furthest>>
  /\ AnimFrame

proceedToPreview ==
  /\ workflow' = updateWorkflow(workflow,
                   [currentStep |-> "animation-preview", progress |-> 90,
                    status |-> "reviewing"])
  /\ thrown' = "none"
  /\ furthest' = Entered(workflow')
  /\ UNCHANGED inflight
  /\ AnimFrame

applyAnimations ==
  /\ workflow' = updateWorkflow(workflow,
                   [currentStep |-> "final-integration", progress |-> 100,
                    status |-> "complete"])
  /\ thrown' = "none"
  /\ furthest' = Entered(workflow')
  /\ UNCHANGED inflight
  /\ AnimFrame

resetWorkflow ==
  /\ workflow' = InitialWorkflow
  /\ thrown' = "none"
  /\ furthest' = 0
  /\ UNCHANGED inflight
  /\ AnimFrame

\* the panel's Try Again button, shown while status is error: onClick={onReset}
tryAgain ==
  /\ workflow.status = "error"
  /\ resetWorkflow

\* whether goToStep lets the requested step through (the hook has no check)
goToStepPermitted(step) == TRUE

goToStep(step) ==
  /\ workflow' = IF goToStepPermitted(step)
                 THEN updateWorkflow(workflow,
                        [currentStep |-> step,
                         progress |-> (StepIndex(step) * 100) \div (Len(stepOrder) - 1),
                         status |-> IF step = "context-analysis" THEN "idle" ELSE "reviewing"])
                 ELSE workflow
  /\ thrown' = "none"
  /\ UNCHANGED <<inflight, furthest>>
  /\ AnimFrame

AnimNext ==
  \/ \E f \in BOOLEAN, u \in {"none", "blob", "remote"}, t \in BOOLEAN : analyzeContext(f, u, t)
  \/ \E i \in 1..MaxInflight, ok \in BOOLEAN : analyzeContextEncoded(i, ok)
  \/ \E i \in 1..MaxInflight, r \in Contexts \cup {"error"} : analyzeContextSettled(i, r)
  \/ generateStoryboard
  \/ \E i \in 1..MaxInflight, r \in Storyboards \cup {"error"} : generateStoryboardSettled(i, r)
  \/ \E e \in ElementIds : approveElement(e)
  \/ \E e \in ElementIds : unapproveElement(e)
  \/ approveAllElements
  \/ proceedToPreview
  \/ applyAnimations
  \/ resetWorkflow
  \/ tryAgain
  \/ \E s \in Steps : goToStep(s)

\* C2: generateStoryboard called while videoContext is null throws the
\* precondition error, starts no remote call and leaves every field of the
\* workflow state as it was.
C2_StoryboardGated ==
  [][(generateStoryboard /\ workflow.videoContext = NULL)
       => /\ thrown' = "PreconditionError"
          /\ workflow' = workflow
          /\ inflight' = inflight]_vars

C2_Witness ==
  /\ thrown = "PreconditionError"
  /\ workflow.videoContext = NULL
  /\ workflow.status = "error"

\* the inputs of a call that are provided: the file, a remote URL, the transcript
Provided(videoFile, videoUrl, existingTranscript) ==
  (IF videoFile THEN {"file"} ELSE {})
    \cup (IF videoUrl = "remote" THEN {"url"} ELSE {})
    \cup (IF existingTranscript THEN {"transcript"} ELSE {})

InputCalls == BOOLEAN \X {"none", "blob", "remote"} \X BOOLEAN

C13_TryAgainKeeps ==
  [][(/\ tryAgain
      /\ workflow.currentStep = "storyboard-generation"
      /\ workflow.videoContext # NULL)
       => /\ workflow'.videoContext = workflow.videoContext
          /\ workflow'.currentStep # "context-analysis"]_vars

\* C14: a remote call of the animation workflow that settles while the
\* workflow is in the state resetWorkflow left it in leaves it in that state
C14_ResetNotUndone ==
  [][\A i \in 1..MaxInflight :
       (/\ workflow = InitialWorkflow
        /\ \/ \E ok \in BOOLEAN : analyzeContextEncoded(i, ok)
           \/ \E r \in Contexts \cup {"error"} : analyzeContextSettled(i, r)
           \/ \E r \in Storyboards \cup {"error"} : generateStoryboardSettled(i, r))
         => workflow' = InitialWorkflow]_vars

\* the ids of the elements of a storyboard, in scene order
storyboardElementIds(sb) == FlatMap(Scenes(sb))

\* C27: every id in approvedElements is the id of an element of the current
\* storyboard, approvedElements is empty when storyboard is null, and the
\* approved count never exceeds the storyboard's element count
C27_ApprovedInStoryboard ==
  IF workflow.storyboard = NULL
  THEN workflow.approvedElements = <<>>
  ELSE /\ Range(workflow.approvedElements)
            \subseteq Range(storyboardElementIds(workflow.storyboard))
       /\ Len(workflow.approvedElements)
            <= Len(storyboardElementIds(workflow.storyboard))

\* C8: in every reachable state a currentStep at or after storyboard-generation
\* implies videoContext is present, and a currentStep at or after element-review
\* (in particular status complete) implies storyboard is present.
C8_StepOrdering ==
  /\ StepIndex(workflow.currentStep) >= 2 => workflow.videoContext # NULL
  /\ StepIndex(workflow.currentStep) >= 3 => workflow.storyboard # NULL
  /\ workflow.status = "complete" => workflow.storyboard # NULL

\* C9: goToStep(step) naming a step after the furthest step the workflow has
\* entered leaves currentStep where it is.
C9_NoForwardSkip ==
  [][\A s \in Steps :
       (goToStep(s) /\ StepIndex(s) > furthest)
         => workflow'.currentStep = workflow.currentStep]_vars

\* C10: approveElement(id) for an id that is already approved leaves
\* approvedElements as it is (approving twice equals approving once, no
\* duplicates), and unapproveElement(id) for an id that is not approved
\* leaves it as it is.
C10_ApproveIdempotent ==
  [][\A e \in ElementIds :
       /\ (approveElement(e) /\ e \in Range(workflow.approvedElements))
            => workflow'.approvedElements = workflow.approvedElements
       /\ (unapproveElement(e) /\ e \notin Range(workflow.approvedElements))
            => workflow'.approvedElements = workflow.approvedElements]_vars

\* ----------------------------------------------- enhancement workflow hook

MaxAnalyses == 1

\* the suggestion types an analysis may deliver, in order
SuggestionLists == { <<"visual", "sfx", "graphic">>, <<"animation", "visual">> }

Remote(type) == type \in {"visual", "sfx"}

\* s.timestamp and s.endTime of the k-th suggestion of an analysis
SuggestionTimes(k) == [timestamp |-> 2 * (k - 1), endTime |-> 2 * k - 1]

MaxRetime == 1

\* the times retimeEnhancement and updateEnhancement are called with
TimeArgs == 0..MaxRetime

InitialEnhWorkflow ==
  [status |-> "idle", progress |-> 0, enhancements |-> <<>>, analysis |-> NULL,
   errorMessage |-> NULL]

NoBatch ==
  [active |-> FALSE, approved |-> <<>>, types |-> <<>>, i |-> 0, completed |-> 0,
   outcomes |-> <<>>, interfered |-> FALSE]

NoToast == [kind |-> "none", completed |-> 0, attempted |-> 0]

EnhParked ==
  /\ enhWorkflow = InitialEnhWorkflow
  /\ analysing = 0
  /\ analyses = 0
  /\ batch = NoBatch
  /\ toast = NoToast

EnhInit == EnhParked

\* enhancements.map(e => e.id === id ? {...e, ...updates} : e)
updateEnhancement(enhancements, id, updates) ==
  [k \in 1..Len(enhancements) |->
     IF enhancements[k].id = id
     THEN updateWorkflow(enhancements[k], updates)
     ELSE enhancements[k]]

RECURSIVE SelectSeq2(_, _)
SelectSeq2(s, status) ==
  IF s = <<>> THEN <<>>
  ELSE IF Head(s).status = status
       THEN <<Head(s)>> \o SelectSeq2(Tail(s), status)
       ELSE SelectSeq2(Tail(s), status)

\* notes that the user changed an item of the running batch
Touch(id) ==
  IF batch.active /\ id \in Range(batch.approved)
  THEN [batch EXCEPT !.interfered = TRUE] ELSE batch

\* notes that the running batch lost its items
Interfere == IF batch.active THEN [batch EXCEPT !.interfered = TRUE] ELSE batch

analyzeForEnhancements ==
  /\ analysing = 0
  /\ analyses < MaxAnalyses
  /\ enhWorkflow' = updateWorkflow(enhWorkflow,
                       [status |-> "analyzing", progress |-> 10, errorMessage |-> NULL])
  /\ analysing' = 1
  /\ UNCHANGED <<analyses, batch, toast>>
  /\ EnhFrame

analyzeForEnhancementsSettled(ok, result) ==
  /\ analysing = 1
  /\ analysing' = 0
  /\ IF ok
     THEN /\ analyses' = analyses + 1
          /\ enhWorkflow' = updateWorkflow(enhWorkflow,
                [status |-> "reviewing", progress |-> 50, analysis |-> "analysis",
                 enhancements |->
                   [k \in 1..Len(result) |->
                      [id |-> <<analyses', k>>, type |-> result[k],
                       status |-> "suggested", url |-> FALSE,
                       startTime |-> SuggestionTimes(k).timestamp,
                       endTime |-> SuggestionTimes(k).endTime,
                       duration |-> SuggestionTimes(k).endTime
                                      - SuggestionTimes(k).timestamp]]])
     ELSE /\ analyses' = analyses
          /\ enhWorkflow' = updateWorkflow(enhWorkflow,
                [status |-> "error", errorMessage |-> RemoteErrorMsg, progress |-> 0])
  /\ batch' = IF ok THEN Interfere ELSE batch
  /\ UNCHANGED toast
  /\ EnhFrame

EnhIds == {enhWorkflow.enhancements[k].id : k \in 1..Len(enhWorkflow.enhancements)}

approveEnhancement(id) ==
  /\ enhWorkflow' = [enhWorkflow EXCEPT
        !.enhancements = updateEnhancement(@, id, [status |-> "approved"])]
  /\ batch' = Touch(id)
  /\ UNCHANGED <<analysing, analyses, toast>>
  /\ EnhFrame

rejectEnhancement(id) ==
  /\ enhWorkflow' = [enhWorkflow EXCEPT
        !.enhancements = updateEnhancement(@, id, [status |-> "rejected"])]
  /\ batch' = Touch(id)
  /\ UNCHANGED <<analysing, analyses, toast>>
  /\ EnhFrame

approveAll ==
  /\ enhWorkflow' = [enhWorkflow EXCEPT
        !.enhancements =
           [k \in 1..Len(@) |->
              IF @[k].status = "suggested" THEN [@[k] EXCEPT !.status = "approved"]
              ELSE @[k]]]
  /\ UNCHANGED <<analysing, analyses, batch, toast>>
  /\ EnhFrame

removeEnhancement(id) ==
  /\ enhWorkflow' = [enhWorkflow EXCEPT
        !.enhancements = SelectSeq(@, LAMBDA e : e.id # id)]
  /\ batch' = Touch(id)
  /\ UNCHANGED <<analysing, analyses, toast>>
  /\ EnhFrame

\* retimeEnhancement(enhancementId, startTime, endTime)
retimeEnhancement(id, startTime, endTime) ==
  /\ enhWorkflow' = [enhWorkflow EXCEPT
        !.enhancements =
           updateEnhancement(@, id,
             [startTime |-> startTime, endTime |-> endTime,
              duration |-> endTime - startTime])]
  /\ UNCHANGED <<analysing, analyses, batch, toast>>
  /\ EnhFrame

\* the hook's updateEnhancement(enhancementId, updates) called with a new endTime
updateEnhancementEndTime(id, endTime) ==
  /\ enhWorkflow' = [enhWorkflow EXCEPT
        !.enhancements = updateEnhancement(@, id, [endTime |-> endTime])]
  /\ UNCHANGED <<analysing, analyses, batch, toast>>
  /\ EnhFrame

resetEnhWorkflow ==
  /\ enhWorkflow' = InitialEnhWorkflow
  /\ batch' = Interfere
  /\ UNCHANGED <<analysing, analyses, toast>>
  /\ EnhFrame

\* 50 + Math.round((completed / approved.length) * 50)
batchProgress(completed, n) == 50 + (100 * completed + n) \div (2 * n)

\* whether one more item counts as completed once its generateEnhancementContent
\* promise has resolved; the promise never rejects, so every item counts
countsCompleted(outcome) == TRUE

\* generateApproved from item i on, up to the next await of a remote call or
\* to the end of the loop: returns the workflow, the batch and the toast
RECURSIVE runBatch(_, _, _)
runBatch(wf, b, t) ==
  IF b.i > Len(b.approved)
  THEN [wf |-> updateWorkflow(wf, [status |-> "complete", progress |-> 100]),
        batch |-> [b EXCEPT !.active = FALSE],
        toast |-> [kind |-> "success", completed |-> b.completed,
                  attempted |-> Len(b.approved)]]
  ELSE LET id == b.approved[b.i]
           generating == [wf EXCEPT
              !.enhancements = updateEnhancement(@, id, [status |-> "generating"])]
       IN IF Remote(b.types[b.i])
          THEN [wf |-> generating, batch |-> b, toast |-> t]
          ELSE LET ready == [generating EXCEPT
                      !.enhancements = updateEnhancement(@, id, [status |-> "ready"])]
                   c == b.completed + 1
               IN runBatch(updateWorkflow(ready,
                             [progress |-> batchProgress(c, Len(b.approved))]),
                           [b EXCEPT !.i = @ + 1, !.completed = c,
                                     !.outcomes = Append(@, "ok")],
                           t)

generateApproved ==
  /\ ~batch.active
  /\ LET approved == SelectSeq2(enhWorkflow.enhancements, "approved")
     IN IF approved = <<>>
        THEN /\ toast' = [kind |-> "error", completed |-> 0, attempted |-> 0]
             /\ UNCHANGED <<enhWorkflow, batch>>
        ELSE LET r == runBatch(
                        updateWorkflow(enhWorkflow, [status |-> "generating", progress |-> 50]),
                        [active |-> TRUE,
                         approved |-> [k \in 1..Len(approved) |-> approved[k].id],
                         types |-> [k \in 1..Len(approved) |-> approved[k].type],
                         i |-> 1, completed |-> 0, outcomes |-> <<>>, interfered |-> FALSE],
                        toast)
             IN /\ enhWorkflow' = r.wf
                /\ batch' = r.batch
                /\ toast' = r.toast
  /\ UNCHANGED <<analysing, analyses>>
  /\ EnhFrame

\* what generateEnhancementContent writes when its remote call has settled
generated(enhancements, id, ok) ==
  IF ok THEN updateEnhancement(enhancements, id, [status |-> "ready", url |-> TRUE])
  ELSE updateEnhancement(enhancements, id, [status |-> "error"])

\* the remote call of the batch's current item settles
generateApprovedItemSettled(ok) ==
  /\ batch.active
  /\ LET id == batch.approved[batch.i]
         wf == [enhWorkflow EXCEPT !.enhancements = generated(@, id, ok)]
         c == IF countsCompleted(ok) THEN batch.completed + 1 ELSE batch.completed
         r == runBatch(
                IF countsCompleted(ok)
                THEN updateWorkflow(wf, [progress |-> batchProgress(c, Len(batch.approved))])
                ELSE wf,
                [batch EXCEPT !.i = @ + 1, !.completed = c,
                              !.outcomes = Append(@, IF ok THEN "ok" ELSE "fail")],
                toast)
     IN /\ enhWorkflow' = r.wf
        /\ batch' = r.batch
        /\ toast' = r.toast
  /\ UNCHANGED <<analysing, analyses>>
  /\ EnhFrame

EnhNext ==
  \/ analyzeForEnhancements
  \/ \E ok \in BOOLEAN, r \in SuggestionLists : analyzeForEnhancementsSettled(ok, r)
  \/ \E id \in EnhIds : approveEnhancement(id)
  \/ \E id \in EnhIds : rejectEnhancement(id)
  \/ approveAll
  \/ \E id \in EnhIds : removeEnhancement(id)
  \/ resetEnhWorkflow
  \/ generateApproved
  \/ \E ok \in BOOLEAN : generateApprovedItemSettled(ok)

\* the operations that set or keep the timing of the enhancements
TimingNext ==
  \/ analyzeForEnhancements
  \/ \E ok \in BOOLEAN, r \in SuggestionLists : analyzeForEnhancementsSettled(ok, r)
  \/ \E id \in EnhIds, t1, t2 \in TimeArgs : retimeEnhancement(id, t1, t2)
  \/ \E id \in EnhIds, t \in TimeArgs : updateEnhancementEndTime(id, t)
  \/ \E id \in EnhIds : approveEnhancement(id)
  \/ \E id \in EnhIds : removeEnhancement(id)
  \/ resetEnhWorkflow

\* C20: in every reachable state of the enhancement workflow every
\* enhancement has startTime < endTime and duration = endTime - startTime
C20_TimingInvariant ==
  \A k \in 1..Len(enhWorkflow.enhancements) :
    LET e == enhWorkflow.enhancements[k]
    IN e.startTime < e.endTime /\ e.duration = e.endTime - e.startTime

StatusOf(enhancements, id) ==
  (CHOOSE e \in Range(enhancements) : e.id = id).status

Succeeded(outcomes) == Cardinality({k \in 1..Len(outcomes) : outcomes[k] = "ok"})

\* C1: when generateApproved finishes a batch in which generation failed for a
\* strict subset of the approved items, every failed item has status error,
\* every succeeded item has status ready, and the reported completed count is
\* the number of items that succeeded.
C1_PartialFailure ==
  [][(/\ batch.active /\ ~batch'.active /\ ~batch'.interfered
      /\ Succeeded(batch'.outcomes) > 0)
       => /\ \A k \in 1..Len(batch'.approved) :
               StatusOf(enhWorkflow'.enhancements, batch'.approved[k])
                 = IF batch'.outcomes[k] = "ok" THEN "ready" ELSE "error"
          /\ toast'.kind = "success"
          /\ toast'.attempted = Len(batch'.approved)
          /\ toast'.completed = Succeeded(batch'.outcomes)]_vars

\* the items of the running batch whose own generation has not begun
Pending(b) ==
  IF b.active THEN {b.approved[k] : k \in (b.i + 1)..Len(b.approved)} ELSE {}

\* the user has rejected the item, or removed it
Withdrawn(id) ==
  id \notin EnhIds \/ StatusOf(enhWorkflow.enhancements, id) = "rejected"

\* C26: an item of the running batch that the user has rejected or removed
\* before its own generation begins is not sent for generation and does not
\* get status generating or ready
C26_BatchRespectsChanges ==
  [][\A id \in Pending(batch) :
       Withdrawn(id)
         => /\ ~(batch'.active /\ batch'.i <= Len(batch'.approved)
                                /\ batch'.approved[batch'.i] = id)
            /\ id \in EnhIds'
                 => StatusOf(enhWorkflow'.enhancements, id)
                      \notin {"generating", "ready"}]_vars

\* --------------------------------------------------- timeline drag gesture

\* One tick is 0.05 s. The track is TrackWidth pixels wide and starts at
\* clientX 0; durations are whole multiples of TrackWidth ticks, so that
\* (deltaX / rect.width) * duration is a whole number of ticks.
TrackWidth == 2
MaxDurationSteps == 3
MaxTime == 6
PointerOvershoot == 1

\* the 0.1 s minimum length of a resized clip, in ticks
MinSpan == 2

ClipIds == {"c1"}

Durations == {k * TrackWidth : k \in 0..MaxDurationSteps}

PointerXs == (0 - PointerOvershoot)..(TrackWidth + PointerOvershoot)

DragModes == {"move", "resize-start", "resize-end"}

NoDrag ==
  [enhancementId |-> NULL, mode |-> NULL, startX |-> 0,
   originalStart |-> 0, originalEnd |-> 0]

NoTiming == [id |-> NULL, startTime |-> 0, endTime |-> 0, deltaTime |-> 0]

DragParked ==
  /\ clips = [c \in ClipIds |-> [startTime |-> 0, endTime |-> MinSpan]]
  /\ duration = 0
  /\ dragState = NoDrag
  /\ lastTiming = NoTiming

\* the props the timeline is mounted with: any clip times, any duration
DragInit ==
  /\ clips \in [ClipIds -> [startTime : 0..MaxTime, endTime : 0..MaxTime]]
  /\ duration \in Durations
  /\ dragState = NoDrag
  /\ lastTiming = NoTiming

\* (deltaX / rect.width) * duration
deltaTimeOf(deltaX, d) == deltaX * (d \div TrackWidth)

moveTiming_uncompensated(os, oe, dt, d) ==
  [startTime |-> Max(0, os + dt), endTime |-> Min(d, oe + dt)]

\* the 'move' branch of handleMouseMove
moveTiming(os, oe, dt, d) ==
  LET newStart == Max(0, os + dt)
      newEnd == Min(d, oe + dt)
      originalDuration == oe - os
      newEnd2 == IF newStart = 0 THEN originalDuration ELSE newEnd
      newStart2 == IF newEnd2 = d THEN d - originalDuration ELSE newStart
  IN [startTime |-> newStart2, endTime |-> newEnd2]

resizeStartTiming_noMinimum(os, oe, dt, d) ==
  [startTime |-> Max(0, Min(oe, os + dt)), endTime |-> oe]

\* the 'resize-start' branch of handleMouseMove
resizeStartTiming(os, oe, dt, d) ==
  [startTime |-> Max(0, Min(oe - MinSpan, os + dt)), endTime |-> oe]

resizeEndTiming_noMinimum(os, oe, dt, d) ==
  [startTime |-> os, endTime |-> Min(d, Max(os, oe + dt))]

\* the 'resize-end' branch of handleMouseMove
resizeEndTiming(os, oe, dt, d) ==
  [startTime |-> os, endTime |-> Min(d, Max(os + MinSpan, oe + dt))]

dragTiming(mode, os, oe, dt, d) ==
  IF mode = "move" THEN moveTiming(os, oe, dt, d)
  ELSE IF mode = "resize-start" THEN resizeStartTiming(os, oe, dt, d)
  ELSE resizeEndTiming(os, oe, dt, d)

\* mouse-down on a clip handle
handleDragStart(id, mode, x) ==
  /\ dragState' = [enhancementId |-> id, mode |-> mode, startX |-> x,
                   originalStart |-> clips[id].startTime,
                   originalEnd |-> clips[id].endTime]
  /\ UNCHANGED <<clips, duration, lastTiming>>
  /\ DragFrame

\* the document mousemove listener, attached while a drag session is active;
\* onUpdateTiming is retimeEnhancement
handleMouseMove(x) ==
  /\ dragState # NoDrag
  /\ LET deltaTime == deltaTimeOf(x - dragState.startX, duration)
         t == dragTiming(dragState.mode, dragState.originalStart, dragState.originalEnd,
                         deltaTime, duration)
     IN /\ lastTiming' = [id |-> dragState.enhancementId, startTime |-> t.startTime,
                          endTime |-> t.endTime, deltaTime |-> deltaTime]
        /\ clips' = [clips EXCEPT ![dragState.enhancementId] = t]
  /\ UNCHANGED <<duration, dragState>>
  /\ DragFrame

\* setDragState(null) in the document mouseup listener, attached while a
\* drag session is active
clearDragState ==
  /\ dragState # NoDrag
  /\ dragState' = NoDrag
  /\ UNCHANGED <<clips, duration, lastTiming>>

\* the document mouseup listener
handleMouseUp ==
  /\ clearDragState
  /\ DragFrame

DragNext ==
  \/ \E id \in ClipIds, m \in DragModes, x \in 0..TrackWidth : handleDragStart(id, m, x)
  \/ \E x \in PointerXs : handleMouseMove(x)
  \/ handleMouseUp

\* C3 as stated: for every clip (a well-formed one, start < end, as the data
\* model requires), every positive media duration and every pointer delta,
\* the pair a pointer-move passes to onUpdateTiming satisfies
\* 0 <= start < end <= duration.
C3_RangeClampAnyClip ==
  [][\A x \in PointerXs :
       (/\ handleMouseMove(x)
        /\ 0 <= dragState.originalStart
        /\ dragState.originalStart < dragState.originalEnd
        /\ duration > 0)
         => /\ 0 <= lastTiming'.startTime
            /\ lastTiming'.startTime < lastTiming'.endTime
            /\ lastTiming'.endTime <= duration]_vars

\* the clip lay within the media when the drag session started
StartedWithin ==
  /\ 0 <= dragState.originalStart
  /\ dragState.originalStart < dragState.originalEnd
  /\ dragState.originalEnd <= duration

\* C3 (amended): for a clip that lay within the media when the drag started
\* (0 <= originalStart < originalEnd <= duration), the pair a pointer-move
\* passes to onUpdateTiming in any of the three modes satisfies
\* 0 <= start < end <= duration.
C3_RangeClamp ==
  [][\A x \in PointerXs :
       (handleMouseMove(x) /\ StartedWithin)
         => /\ 0 <= lastTiming'.startTime
            /\ lastTiming'.startTime < lastTiming'.endTime
            /\ lastTiming'.endTime <= duration]_vars

\* a resize-start dragged right past the end of a clip within the media
C3_Witness ==
  /\ dragState.mode = "resize-start"
  /\ StartedWithin
  /\ lastTiming.deltaTime >= dragState.originalEnd - dragState.originalStart
  /\ lastTiming.startTime = dragState.originalEnd - MinSpan
  /\ lastTiming.endTime = dragState.originalEnd

\* v clamped into [lo, hi]
Clamp(v, lo, hi) == IF v < lo THEN lo ELSE IF v > hi THEN hi ELSE v

\* C19 as stated: after any resize of a clip within the media the bound that
\* is not resized is unchanged and end minus start is at least the minimum
C19_ResizeAnyClip ==
  [][\A x \in PointerXs :
       (handleMouseMove(x) /\ StartedWithin /\ dragState.mode # "move")
         => /\ lastTiming'.endTime - lastTiming'.startTime >= MinSpan
            /\ dragState.mode = "resize-start" => lastTiming'.endTime = dragState.originalEnd
            /\ dragState.mode = "resize-end"
                 => lastTiming'.startTime = dragState.originalStart]_vars

\* C19: resize-start of a clip that ends at or after the minimum length gives originalStart + deltaTime clamped into
\* [0, end - minimum], resize-end of a clip that starts at least the minimum
\* before the media end gives originalEnd + deltaTime clamped into
\* [start + minimum, duration]; the other bound is unchanged and end minus
\* start is at least the minimum
C19_ResizeMinLength ==
  [][\A x \in PointerXs :
       handleMouseMove(x) =>
         LET os == dragState.originalStart
             oe == dragState.originalEnd
             dt == lastTiming'.deltaTime
         IN /\ (dragState.mode = "resize-start" /\ oe >= MinSpan)
                 => /\ lastTiming'.startTime = Clamp(os + dt, 0, oe - MinSpan)
                    /\ lastTiming'.endTime = oe
                    /\ lastTiming'.endTime - lastTiming'.startTime >= MinSpan
            /\ (dragState.mode = "resize-end" /\ os + MinSpan <= duration)
                 => /\ lastTiming'.endTime = Clamp(oe + dt, os + MinSpan, duration)
                    /\ lastTiming'.startTime = os
                    /\ lastTiming'.endTime - lastTiming'.startTime >= MinSpan]_vars

\* the right edge dragged left past the start: the end stops one minimum
\* length after the start
C19_Witness ==
  /\ dragState.mode = "resize-end"
  /\ StartedWithin
  /\ dragState.originalStart + MinSpan <= duration
  /\ dragState.originalEnd + lastTiming.deltaTime < dragState.originalStart
  /\ lastTiming.startTime = dragState.originalStart
  /\ lastTiming.endTime = dragState.originalStart + MinSpan

\* C4: a pointer-move in move mode passes a pair whose end minus start equals
\* the original end minus the original start, also when the shifted clip is
\* clamped at time 0 or at the media duration.
C4_MoveKeepsSpan ==
  [][\A x \in PointerXs :
       (handleMouseMove(x) /\ dragState.mode = "move")
         => lastTiming'.endTime - lastTiming'.startTime
              = dragState.originalEnd - dragState.originalStart]_vars

\* a clip within the media moved right beyond the media end: clamped at the
\* duration with its start compensated
C4_Witness ==
  /\ dragState.mode = "move"
  /\ StartedWithin
  /\ dragState.originalEnd + lastTiming.deltaTime > duration
  /\ lastTiming.endTime = duration
  /\ lastTiming.startTime = duration - (dragState.originalEnd - dragState.originalStart)
  /\ lastTiming.startTime > dragState.originalStart

\* ------------------------------------------------ chat stream reconciler

\* The body is a sequence of symbols. "LF" and "CR" are the line ends, "data:"
\* followed by " " is the 'data: ' prefix, "[DONE]" the sentinel, "{" ... "}"
\* a JSON object whose choices[0].delta.content is the tokens in between.
MaxLines == 3

LF == "LF"
CR == "CR"

\* what a delta can carry: plain text "a", "b", "w", a newline "n", the
\* opening fence of a json block (three backticks and the word json), the bare
\* fence (three backticks), and JSON objects written out in full
FenceJson == "fence-json"
Fence == "fence"

Objects == {"{editType,description,timestamps}", "{type,description,timestamps}", "{}"}

DeltaTokens == {"a", "b", "w", "n", FenceJson, Fence} \cup Objects

\* the lines a body is made of, without their line feed
LineA == <<"data:", " ", "{", "a", "}">>
LineB == <<"data:", " ", "{", "b", "}", CR>>
LineBlank == <<>>
LineComment == <<":", "a">>
LineOther == <<"a", "{", "}">>
LineBad == <<"data:", " ", "{", "a">>
LineDone == <<"data:", " ", "[DONE]">>

Lines == {LineA, LineB, LineBlank, LineComment, LineOther, LineBad, LineDone}

RECURSIVE Bytes(_)
Bytes(ls) == IF ls = <<>> THEN <<>> ELSE Head(ls) \o <<LF>> \o Bytes(Tail(ls))

SeqsUpTo(S, n) == UNION {[1..k -> S] : k \in 1..n}

Payloads == {Bytes(ls) : ls \in SeqsUpTo(Lines, MaxLines)}

\* a read delivers from one symbol up to the whole body
ChunkSizes == 1..(MaxLines * (Len(LineB) + 1))

NoEditAction ==
  [present |-> FALSE, type |-> NULL, description |-> NULL, timestamps |-> NULL]

ChatParked ==
  /\ payload = <<>>
  /\ stream = <<>>
  /\ textBuffer = <<>>
  /\ assistantContent = <<>>
  /\ userContent = NULL
  /\ messages = <<>>
  /\ isProcessing = FALSE
  /\ editAction = NoEditAction
  /\ chatPc = "idle"

\* a mounted chat, and the body the server will answer the message with
ChatInit ==
  /\ payload \in Payloads
  /\ stream = <<>>
  /\ textBuffer = <<>>
  /\ assistantContent = <<>>
  /\ userContent = NULL
  /\ messages = <<>>
  /\ isProcessing = FALSE
  /\ editAction = NoEditAction
  /\ chatPc = "idle"

IndexOf(s, x) ==
  IF x \in Range(s) THEN CHOOSE i \in 1..Len(s) : s[i] = x /\ \A j \in 1..(i - 1) : s[j] # x
  ELSE 0

Whitespace == {" ", CR, LF, "n"}

RECURSIVE TrimLeft(_)
TrimLeft(s) ==
  IF s # <<>> /\ Head(s) \in Whitespace THEN TrimLeft(Tail(s)) ELSE s

RECURSIVE TrimRight(_)
TrimRight(s) ==
  IF s # <<>> /\ s[Len(s)] \in Whitespace THEN TrimRight(SubSeq(s, 1, Len(s) - 1)) ELSE s

\* String.prototype.trim
Trim(s) == TrimRight(TrimLeft(s))

StartsWith(s, prefix) ==
  Len(s) >= Len(prefix) /\ SubSeq(s, 1, Len(prefix)) = prefix

\* JSON.parse(jsonStr) succeeds
ParsesAsJson(jsonStr) ==
  /\ Len(jsonStr) >= 2
  /\ Head(jsonStr) = "{"
  /\ jsonStr[Len(jsonStr)] = "}"
  /\ \A i \in 2..(Len(jsonStr) - 1) : jsonStr[i] \in DeltaTokens

\* parsed.choices?.[0]?.delta?.content
DeltaContent(jsonStr) == SubSeq(jsonStr, 2, Len(jsonStr) - 1)

appendChunk_dropsPartialLine(buffer, chunk) == chunk

\* textBuffer += decoder.decode(value, {stream: true})
appendChunk(buffer, chunk) == buffer \o chunk

rebuffer_discarding(line, rest) == rest

\* textBuffer = line + '\n' + textBuffer
rebuffer(line, rest) == line \o <<LF>> \o rest

\* the inner while loop over the complete lines of the buffer: returns what
\* is left in the buffer and the grown assistant content
RECURSIVE processLines(_, _)
processLines(buffer, content) ==
  LET newlineIndex == IndexOf(buffer, LF) IN
  IF newlineIndex = 0 THEN [textBuffer |-> buffer, assistantContent |-> content]
  ELSE
    LET raw == SubSeq(buffer, 1, newlineIndex - 1)
        rest == SubSeq(buffer, newlineIndex + 1, Len(buffer))
        line == IF raw # <<>> /\ raw[Len(raw)] = CR
                THEN SubSeq(raw, 1, Len(raw) - 1) ELSE raw
        jsonStr == Trim(SubSeq(line, 3, Len(line)))
    IN
    IF StartsWith(line, <<":">>) \/ Trim(line) = <<>> THEN processLines(rest, content)
    ELSE IF ~StartsWith(line, <<"data:", " ">>) THEN processLines(rest, content)
    ELSE IF jsonStr = <<"[DONE]">>
         THEN [textBuffer |-> rest, assistantContent |-> content]
    ELSE IF ParsesAsJson(jsonStr)
         THEN processLines(rest, content \o DeltaContent(jsonStr))
    ELSE [textBuffer |-> rebuffer(line, rest), assistantContent |-> content]

UserMessage == "make it faster"

ErrorReply == <<"Sorry, I encountered an error processing your request. Please try again.">>

\* messages.map(m => m.id === assistantMessageId ? {...m, ...updates} : m);
\* the placeholder is the last assistant message of the list
updatePlaceholder(msgs, updates) ==
  [k \in 1..Len(msgs) |->
     IF k = Len(msgs) THEN updateWorkflow(msgs[k], updates) ELSE msgs[k]]

\* sendMessage up to the await of fetch
sendMessage ==
  /\ chatPc = "idle"
  /\ messages' = Append(messages,
                   [role |-> "user", content |-> <<UserMessage>>, status |-> "sent",
                    hasEditAction |-> FALSE])
  /\ isProcessing' = TRUE
  /\ assistantContent' = <<>>
  /\ userContent' = UserMessage
  /\ editAction' = NoEditAction
  /\ chatPc' = "fetching"
  /\ stream' = payload
  /\ UNCHANGED <<payload, textBuffer>>
  /\ ChatFrame

\* the catch and finally blocks of sendMessage
sendMessageFailed ==
  /\ messages' = Append(messages,
                   [role |-> "assistant", content |-> ErrorReply, status |-> "complete",
                    hasEditAction |-> FALSE])
  /\ editAction' = NoEditAction
  /\ isProcessing' = FALSE
  /\ chatPc' = "failed"

\* fetch settles: a non-OK status or a missing body throws; otherwise the
\* reader is opened and the placeholder assistant message is added
responseArrived(ok) ==
  /\ chatPc = "fetching"
  /\ IF ok
     THEN /\ messages' = Append(messages,
                           [role |-> "assistant", content |-> <<>>,
                            status |-> "processing", hasEditAction |-> FALSE])
          /\ textBuffer' = <<>>
          /\ chatPc' = "streaming"
          /\ UNCHANGED <<isProcessing, editAction>>
     ELSE /\ sendMessageFailed
          /\ UNCHANGED textBuffer
  /\ UNCHANGED <<payload, stream, assistantContent, userContent>>
  /\ ChatFrame

\* reader.read() delivers the next n symbols of the body
readChunk(n) ==
  /\ chatPc = "streaming"
  /\ n \in 1..Len(stream)
  /\ LET r == processLines(appendChunk(textBuffer, SubSeq(stream, 1, n)), assistantContent)
     IN /\ textBuffer' = r.textBuffer
        /\ assistantContent' = r.assistantContent
        /\ messages' = IF r.assistantContent # assistantContent
                       THEN updatePlaceholder(messages, [content |-> r.assistantContent])
                       ELSE messages
  /\ stream' = SubSeq(stream, n + 1, Len(stream))
  /\ UNCHANGED <<payload, userContent, isProcessing, editAction, chatPc>>
  /\ ChatFrame

\* reader.read() rejects
readFailed ==
  /\ chatPc = "streaming"
  /\ sendMessageFailed
  /\ UNCHANGED <<payload, stream, textBuffer, assistantContent, userContent>>
  /\ ChatFrame

\* ------------------------------------------- edit-action extraction

MaxText == 4

ExtractTokens == {"w", "n", FenceJson, Fence} \cup Objects

\* JSON.parse of an object token: the fields it carries, NULL for an absent one
Fields(o) ==
  IF o = "{editType,description,timestamps}"
  THEN [editType |-> "cut", type |-> NULL, description |-> "remove the pause",
        timestamps |-> "0-5"]
  ELSE IF o = "{type,description,timestamps}"
  THEN [editType |-> NULL, type |-> "trim", description |-> "remove the pause",
        timestamps |-> "0-5"]
  ELSE [editType |-> NULL, type |-> NULL, description |-> NULL, timestamps |-> NULL]

Fences == {Fence, FenceJson}

closingFence_greedy(text, from) ==
  IF \E q \in from..Len(text) : text[q] \in Fences
  THEN CHOOSE q \in from..Len(text) :
         text[q] \in Fences /\ \A r \in (q + 1)..Len(text) : text[r] \notin Fences
  ELSE 0

\* where the lazy [\s\S]*? stops: the first three backticks at or after from,
\* which an opening fence starts with too; 0 for none
closingFence(text, from) ==
  IF \E q \in from..Len(text) : text[q] \in Fences
  THEN CHOOSE q \in from..Len(text) :
         text[q] \in Fences /\ \A r \in from..(q - 1) : text[r] \notin Fences
  ELSE 0

\* assistantContent.match(...) with the fenced-json pattern: whether it
\* matched, and capture group 1
matchFencedJson(text) ==
  LET open == IndexOf(text, FenceJson)
      from == IF open < Len(text) /\ text[open + 1] = "n" THEN open + 2 ELSE open + 1
      close == closingFence(text, from)
      last == IF close - 1 >= from /\ text[close - 1] = "n" THEN close - 2 ELSE close - 1
  IN IF open = 0 \/ close = 0 THEN [found |-> FALSE, capture |-> <<>>]
     ELSE [found |-> TRUE, capture |-> SubSeq(text, from, last)]

\* JSON.parse(jsonMatch[1]): white space aside, the capture is one object
parseEditData(capture) ==
  LET body == SelectSeq(capture, LAMBDA tok : tok # "n")
  IN IF Len(body) = 1 /\ body[1] \in Objects
     THEN [ok |-> TRUE, value |-> body[1]]
     ELSE [ok |-> FALSE, value |-> "{}"]

\* a || b on strings
orElse(a, b) == IF a = NULL \/ a = "" THEN b ELSE a

\* content.substring(0, 50)
substring50(content) == content

\* lines 381-402: the edit action sendMessage resolves with
extractEditAction(text, content) ==
  LET jsonMatch == matchFencedJson(text)
      parsed == parseEditData(jsonMatch.capture)
      editData == Fields(parsed.value)
  IN IF jsonMatch.found /\ parsed.ok
     THEN [present |-> TRUE,
           type |-> orElse(editData.editType, "effect"),
           description |-> orElse(editData.description, substring50(content)),
           timestamps |-> NULL]
     ELSE NoEditAction

stripFencedJson_keeping(text) == text

\* assistantContent.replace(..., '') of every fenced json block: a block closed
\* by the backticks of another opening fence leaves that fence's word json
RECURSIVE stripFencedJson(_)
stripFencedJson(text) ==
  LET open == IndexOf(text, FenceJson)
      close == closingFence(text, open + 1)
  IN IF open = 0 \/ close = 0 THEN text
     ELSE SubSeq(text, 1, open - 1)
          \o (IF text[close] = FenceJson THEN <<"json">> ELSE <<>>)
          \o stripFencedJson(SubSeq(text, close + 1, Len(text)))

\* reader.read() reports done: extraction, finalisation, return, finally
streamEnded ==
  /\ chatPc = "streaming"
  /\ stream = <<>>
  /\ LET action == extractEditAction(assistantContent, userContent)
     IN /\ editAction' = action
        /\ messages' = updatePlaceholder(messages,
                         [status |-> "complete",
                          content |-> Trim(stripFencedJson(assistantContent)),
                          hasEditAction |-> action.present])
  /\ isProcessing' = FALSE
  /\ chatPc' = "done"
  /\ UNCHANGED <<payload, stream, textBuffer, assistantContent, userContent>>
  /\ ChatFrame

ChatNext ==
  \/ sendMessage
  \/ \E ok \in BOOLEAN : responseArrived(ok)
  \/ \E n \in ChunkSizes : readChunk(n)
  \/ readFailed
  \/ streamEnded

\* the text of the assistant message the stream was written into
finalText == messages[Len(messages)].content

\* the state the loop is in after the whole of one data line carrying text,
\* followed by the sentinel, has been read
ExtractInit ==
  /\ assistantContent \in SeqsUpTo(ExtractTokens, MaxText)
  /\ payload = Bytes(<<(<<"data:", " ", "{">> \o assistantContent \o <<"}">>), LineDone>>)
  /\ stream = <<>>
  /\ textBuffer = <<>>
  /\ userContent = UserMessage
  /\ messages =
       << [role |-> "user", content |-> <<UserMessage>>, status |-> "sent",
           hasEditAction |-> FALSE],
          [role |-> "assistant", content |-> assistantContent, status |-> "processing",
           hasEditAction |-> FALSE] >>
  /\ isProcessing = TRUE
  /\ editAction = NoEditAction
  /\ chatPc = "streaming"

ExtractNext == streamEnded

\* -------------------------------------------------- active-caption lookup

MaxSegments == 2
MaxCaptionTime == 2

CaptionTimes == 0..MaxCaptionTime
QueryTimes == (0 - 1)..(MaxCaptionTime + 1)

SegmentLists ==
  {<<>>} \cup SeqsUpTo([startTime : CaptionTimes, endTime : CaptionTimes], MaxSegments)

contains_exclusiveEnd(seg, t) == t >= seg.startTime /\ t < seg.endTime

\* (seg) => currentTime >= seg.startTime && currentTime <= seg.endTime
contains(seg, t) == t >= seg.startTime /\ t <= seg.endTime

\* Array.prototype.findIndex from position k on, 0 standing for -1
RECURSIVE findIndexFrom(_, _, _)
findIndexFrom(segs, t, k) ==
  IF k > Len(segs) THEN 0
  ELSE IF contains(segs[k], t) THEN k
  ELSE findIndexFrom(segs, t, k + 1)

\* the useMemo body of CaptionOverlay and of DraggableCaptionOverlay
lookupCaption(has, segs, enabled, t) ==
  IF ~has \/ ~enabled THEN 0 ELSE findIndexFrom(segs, t, 1)

CaptionParked ==
  /\ segments = <<>>
  /\ hasSegments = FALSE
  /\ captionsEnabled = FALSE
  /\ currentTime = 0
  /\ currentCaption = 0

CaptionInit ==
  /\ segments \in SegmentLists
  /\ hasSegments \in BOOLEAN
  /\ hasSegments = FALSE => segments = <<>>
  /\ captionsEnabled \in BOOLEAN
  /\ currentTime = 0
  /\ currentCaption = lookupCaption(hasSegments, segments, captionsEnabled, currentTime)

\* a render with a new currentTime prop
timeUpdate(t) ==
  /\ currentTime' = t
  /\ currentCaption' = lookupCaption(hasSegments, segments, captionsEnabled, t)
  /\ UNCHANGED <<segments, hasSegments, captionsEnabled>>
  /\ CaptionFrame

\* a render with settings.enabled flipped
toggleCaptions ==
  /\ captionsEnabled' = ~captionsEnabled
  /\ currentCaption' = lookupCaption(hasSegments, segments, ~captionsEnabled, currentTime)
  /\ UNCHANGED <<segments, hasSegments, currentTime>>
  /\ CaptionFrame

CaptionNext ==
  \/ \E t \in QueryTimes : timeUpdate(t)
  \/ toggleCaptions

\* ------------------------------------------- timeline clicks and gestures

\* where the pointer is when the button is released: over the dragged clip,
\* over the timeline container outside the clip, or outside the timeline
ReleaseTargets == {"clip", "track", "outside"}

NoSeek == [time |-> 0, called |-> FALSE, gesture |-> FALSE]

GestureParked ==
  /\ pendingClick = "none"
  /\ lastSeek = NoSeek

\* pixelToTime
pixelToTime(pixelX) ==
  IF duration <= 0 THEN 0
  ELSE Clamp(pixelX * (duration \div TrackWidth), 0, duration)

\* handleTimelineClick: if (dragState || !onSeek) return; onSeek(pixelToTime(e.clientX))
handleTimelineClick(x, gesture) ==
  lastSeek' = IF dragState # NoDrag THEN lastSeek
              ELSE [time |-> pixelToTime(x), called |-> TRUE, gesture |-> gesture]

\* mouse-down on a clip handle; no click is pending when a button goes down
pointerDown(id, mode, x) ==
  /\ pendingClick = "none"
  /\ handleDragStart(id, mode, x)

\* a pointer-move during the session
pointerMove(x) ==
  /\ pendingClick = "none"
  /\ handleMouseMove(x)

\* the button is released: the document mouseup listener runs, and the
\* browser will dispatch a click to the common ancestor of the elements
\* under the press and under the release
pointerUp(over) ==
  /\ pendingClick = "none"
  /\ clearDragState
  /\ pendingClick' = over
  /\ UNCHANGED lastSeek
  /\ GestureFrame

\* the click that follows the release: on the clip it is the clip's
\* onClick, which stops propagation; on the timeline container it is
\* handleTimelineClick; outside the timeline nothing listens
gestureClick(x) ==
  /\ pendingClick # "none"
  /\ pendingClick' = "none"
  /\ IF pendingClick = "track"
     THEN handleTimelineClick(x, TRUE)
     ELSE UNCHANGED lastSeek
  /\ UNCHANGED dragVars
  /\ GestureFrame

\* a click on the track background that is not part of a drag gesture
trackClick(x) ==
  /\ pendingClick = "none"
  /\ handleTimelineClick(x, FALSE)
  /\ UNCHANGED <<dragVars, pendingClick>>
  /\ GestureFrame

TrackXs == 0..TrackWidth

GestureNext ==
  \/ \E id \in ClipIds, m \in DragModes, x \in TrackXs : pointerDown(id, m, x)
  \/ \E x \in PointerXs : pointerMove(x)
  \/ \E over \in ReleaseTargets : pointerUp(over)
  \/ \E x \in TrackXs : gestureClick(x)
  \/ \E x \in TrackXs : trackClick(x)

\* ------------------------------------------------- video analysis hook

MaxVideoCalls == 2

\* the messages an error of the hook can carry, by the word the catch
\* blocks look for
RateLimit == "Rate limit"
Credits == "credits"
TooLarge == "too large"
RemoteErrors == {RateLimit, Credits, TooLarge, "remote error"}

\* project.videoFile: absent, at most 5 MB, above 5 MB
VideoFiles == {"none", "small", "large"}
\* project.videoUrl: absent, a blob: URL, a remote URL
VideoUrls == {"none", "blob", "remote"}

\* who awaits the promise: the two handlers with a try/catch, and
\* handleSendMessage, which neither awaits nor catches
Callers == {"handleRunAnalysis", "handleGenerateCaptions", "handleSendMessage"}

catches(caller) == caller \in {"handleRunAnalysis", "handleGenerateCaptions"}

\* useState<VideoAnalysis | null>(null)
NoAnalysis ==
  [present |-> FALSE, transcription |-> NULL, pauses |-> NULL, keyMoments |-> NULL,
   sceneChanges |-> NULL, suggestedEdits |-> NULL, status |-> "none",
   errorMessage |-> NULL]

\* the literal both operations start from
ProcessingAnalysis ==
  [present |-> TRUE, transcription |-> NULL, pauses |-> NULL, keyMoments |-> NULL,
   sceneChanges |-> NULL, suggestedEdits |-> NULL, status |-> "processing",
   errorMessage |-> NULL]

\* the object analyzeVideo builds from data.analysis
CompletedAnalysis(r) ==
  [present |-> TRUE, transcription |-> r, pauses |-> r, keyMoments |-> r,
   sceneChanges |-> r, suggestedEdits |-> r, status |-> "completed",
   errorMessage |-> NULL]

\* the row fetchAnalysis found on mount, if any
StoredAnalyses == {NoAnalysis, CompletedAnalysis("stored")}

VideoParked ==
  /\ analysis = NoAnalysis
  /\ videoCalls = <<>>
  /\ uncaught = {}
  /\ isAnalyzing = FALSE
  /\ isGeneratingCaptions = FALSE
  /\ videoToast = "none"

VideoInit ==
  /\ analysis \in StoredAnalyses
  /\ videoCalls = <<>>
  /\ uncaught = {}
  /\ isAnalyzing = FALSE
  /\ isGeneratingCaptions = FALSE
  /\ videoToast = "none"

\* setAnalysis(prev => ({ ...prev!, status: 'error', errorMessage }))
failedAnalysis(prev, errorMessage) ==
  [prev EXCEPT !.present = TRUE, !.status = "error", !.errorMessage = errorMessage]

\* the toast chain of analyzeVideo's catch
analysisErrorToast(errorMessage) ==
  IF errorMessage = RateLimit THEN "Rate limit exceeded"
  ELSE IF errorMessage = Credits THEN "AI credits exhausted"
  ELSE "Analysis failed"

\* the toast chain of generateCaptions' catch
captionErrorToast(errorMessage) ==
  IF errorMessage = RateLimit THEN "Rate limit exceeded"
  ELSE IF errorMessage = Credits THEN "AI credits exhausted"
  ELSE IF errorMessage = TooLarge THEN "Video is too large"
  ELSE "Caption generation failed"

\* throw error leaves the operation: a caller with a catch block logs it,
\* nobody else handles the rejected promise
rethrow(op, caller) ==
  uncaught' = IF catches(caller) THEN uncaught ELSE uncaught \cup {op}

\* the catch and finally blocks of analyzeVideo
analyzeVideoCatch(prev, errorMessage, caller) ==
  /\ analysis' = failedAnalysis(prev, errorMessage)
  /\ videoToast' = analysisErrorToast(errorMessage)
  /\ rethrow("analyzeVideo", caller)
  /\ isAnalyzing' = FALSE

\* handleRunAnalysis: analyzeVideo(project.id, project.videoFile, project.videoUrl)
analyzeVideo(videoFile, videoUrl) ==
  /\ Len(videoCalls) < MaxVideoCalls
  /\ IF videoFile # "none"
     THEN /\ videoCalls' =
               Append(videoCalls, [op |-> "analyzeVideo", phase |-> "encode",
                                   caller |-> "handleRunAnalysis"])
          /\ analysis' = ProcessingAnalysis
          /\ isAnalyzing' = TRUE
          /\ UNCHANGED <<uncaught, videoToast>>
     ELSE IF videoUrl # "none"
     THEN /\ videoCalls' =
               Append(videoCalls, [op |-> "analyzeVideo", phase |-> "invoke",
                                   caller |-> "handleRunAnalysis"])
          /\ analysis' = ProcessingAnalysis
          /\ isAnalyzing' = TRUE
          /\ UNCHANGED <<uncaught, videoToast>>
     ELSE /\ analyzeVideoCatch(ProcessingAnalysis, "input required", "handleRunAnalysis")
          /\ UNCHANGED videoCalls
  /\ UNCHANGED isGeneratingCaptions
  /\ VideoFrame

\* fileToBase64 settles
analyzeVideoEncoded(i, ok) ==
  /\ i \in 1..Len(videoCalls)
  /\ videoCalls[i].op = "analyzeVideo"
  /\ videoCalls[i].phase = "encode"
  /\ IF ok
     THEN /\ videoCalls' = [videoCalls EXCEPT ![i].phase = "invoke"]
          /\ UNCHANGED <<analysis, uncaught, isAnalyzing, videoToast>>
     ELSE /\ videoCalls' = RemoveAt(videoCalls, i)
          /\ analyzeVideoCatch(analysis, "read error", videoCalls[i].caller)
  /\ UNCHANGED isGeneratingCaptions
  /\ VideoFrame

\* supabase.functions.invoke('analyze-video') settles
analyzeVideoSettled(i, result) ==
  /\ i \in 1..Len(videoCalls)
  /\ videoCalls[i].op = "analyzeVideo"
  /\ videoCalls[i].phase = "invoke"
  /\ videoCalls' = RemoveAt(videoCalls, i)
  /\ IF result = "ok"
     THEN /\ analysis' = CompletedAnalysis("analysed")
          /\ videoToast' = "Video analysis completed!"
          /\ isAnalyzing' = FALSE
          /\ UNCHANGED uncaught
     ELSE analyzeVideoCatch(analysis, result, videoCalls[i].caller)
  /\ UNCHANGED isGeneratingCaptions
  /\ VideoFrame

\* the catch and finally blocks of generateCaptions
generateCaptionsCatch(prev, errorMessage, caller) ==
  /\ analysis' = failedAnalysis(prev, errorMessage)
  /\ videoToast' = captionErrorToast(errorMessage)
  /\ rethrow("generateCaptions", caller)
  /\ isGeneratingCaptions' = FALSE

\* whether generateCaptions uploads the file before it looks at the URL
needsUpload(videoFile, videoUrl) ==
  videoFile = "large" \/ (videoFile = "small" /\ videoUrl = "none")

\* setAnalysis(prev => prev ? { ...prev, status: 'processing' } : { ... })
captionsProcessing(prev) ==
  IF prev.present THEN [prev EXCEPT !.status = "processing"] ELSE ProcessingAnalysis

\* generateCaptions up to its first await, or to its end when it throws
\* before awaiting anything
generateCaptions(videoFile, videoUrl, caller) ==
  /\ Len(videoCalls) < MaxVideoCalls
  /\ IF needsUpload(videoFile, videoUrl)
     THEN /\ videoCalls' =
               Append(videoCalls, [op |-> "generateCaptions", phase |-> "upload",
                                   caller |-> caller])
          /\ analysis' = captionsProcessing(analysis)
          /\ isGeneratingCaptions' = TRUE
          /\ videoToast' = "Uploading video for processing..."
          /\ UNCHANGED uncaught
     ELSE IF videoUrl = "none"
     THEN /\ generateCaptionsCatch(captionsProcessing(analysis), "no video URL", caller)
          /\ UNCHANGED videoCalls
     ELSE IF videoUrl = "blob"
     THEN /\ generateCaptionsCatch(captionsProcessing(analysis), "blob URL", caller)
          /\ UNCHANGED videoCalls
     ELSE /\ videoCalls' =
               Append(videoCalls, [op |-> "generateCaptions", phase |-> "invoke",
                                   caller |-> caller])
          /\ analysis' = captionsProcessing(analysis)
          /\ isGeneratingCaptions' = TRUE
          /\ UNCHANGED <<uncaught, videoToast>>
  /\ UNCHANGED isAnalyzing

\* handleGenerateCaptions: awaits generateCaptions inside try/catch
handleGenerateCaptions(videoFile, videoUrl) ==
  /\ generateCaptions(videoFile, videoUrl, "handleGenerateCaptions")
  /\ VideoFrame

\* analysis?.transcription && analysis.transcription.segments?.length > 0
hasTranscription(a) == a.present /\ a.transcription # NULL

\* handleSendMessage once sendMessage has resolved with a caption edit:
\* it calls generateCaptions without awaiting it and without a catch
handleSendMessage(videoFile, videoUrl) ==
  /\ ~hasTranscription(analysis)
  /\ generateCaptions(videoFile, videoUrl, "handleSendMessage")
  /\ VideoFrame

\* supabase.storage.from('videos').upload settles
generateCaptionsUploaded(i, ok) ==
  /\ i \in 1..Len(videoCalls)
  /\ videoCalls[i].op = "generateCaptions"
  /\ videoCalls[i].phase = "upload"
  /\ IF ok
     THEN /\ videoCalls' = [videoCalls EXCEPT ![i].phase = "invoke"]
          /\ UNCHANGED <<analysis, uncaught, isGeneratingCaptions, videoToast>>
     ELSE /\ videoCalls' = RemoveAt(videoCalls, i)
          /\ generateCaptionsCatch(analysis, "upload failed", videoCalls[i].caller)
  /\ UNCHANGED isAnalyzing
  /\ VideoFrame

\* supabase.functions.invoke('generate-captions') settles
generateCaptionsSettled(i, result) ==
  /\ i \in 1..Len(videoCalls)
  /\ videoCalls[i].op = "generateCaptions"
  /\ videoCalls[i].phase = "invoke"
  /\ videoCalls' = RemoveAt(videoCalls, i)
  /\ IF result = "ok"
     THEN /\ analysis' = [analysis EXCEPT !.present = TRUE,
                                          !.transcription = "captioned",
                                          !.status = "completed"]
          /\ videoToast' = "Captions generated!"
          /\ isGeneratingCaptions' = FALSE
          /\ UNCHANGED uncaught
     ELSE generateCaptionsCatch(analysis, result, videoCalls[i].caller)
  /\ UNCHANGED isAnalyzing
  /\ VideoFrame

CallSlots == 1..MaxVideoCalls

VideoNext ==
  \/ \E f \in VideoFiles, u \in VideoUrls : analyzeVideo(f, u)
  \/ \E i \in CallSlots, ok \in BOOLEAN : analyzeVideoEncoded(i, ok)
  \/ \E i \in CallSlots, r \in {"ok"} \cup RemoteErrors : analyzeVideoSettled(i, r)
  \/ \E f \in VideoFiles, u \in VideoUrls : handleGenerateCaptions(f, u)
  \/ \E f \in VideoFiles, u \in VideoUrls : handleSendMessage(f, u)
  \/ \E i \in CallSlots, ok \in BOOLEAN : generateCaptionsUploaded(i, ok)
  \/ \E i \in CallSlots, r \in {"ok"} \cup RemoteErrors : generateCaptionsSettled(i, r)

\* --------------------------------------------------- playback position

BarWidth == 2
MaxMediaSteps == 2
MaxMarkers == 2

\* the element's duration, a multiple of the bar width so that
\* percent * duration is a whole number of ticks
MediaDurations == {k * BarWidth : k \in 1..MaxMediaSteps}

\* timestamps the analysis can carry: it is produced remotely and nothing
\* compares it with the media duration
MarkerTimes == 0..(MaxMediaSteps * BarWidth + 1)

MarkerLists == {<<>>} \cup SeqsUpTo(MarkerTimes, MaxMarkers)

ClickXs == 0..BarWidth

PlayerParked ==
  /\ previewTime = 0
  /\ previewDuration = 0
  /\ videoTime = 0
  /\ mediaDuration = 0
  /\ markers = <<>>

\* useState(0) for currentTime and duration, an element that has not played
PlayerInit ==
  /\ previewTime = 0
  /\ previewDuration = 0
  /\ videoTime = 0
  /\ mediaDuration \in MediaDurations
  /\ markers \in MarkerLists

\* the element moves to a position inside its media, as the media element
\* does for an assignment to currentTime
seekElement(time) == Clamp(time, 0, mediaDuration)

\* const handleLoadedMetadata = () => setDuration(video.duration)
handleLoadedMetadata ==
  /\ previewDuration' = mediaDuration
  /\ UNCHANGED <<previewTime, videoTime, mediaDuration, markers>>
  /\ PlayerFrame

\* the element plays one tick further; it has its metadata by then
playback ==
  /\ previewDuration > 0
  /\ videoTime < mediaDuration
  /\ videoTime' = videoTime + 1
  /\ UNCHANGED <<previewTime, previewDuration, mediaDuration, markers>>
  /\ PlayerFrame

\* const handleTimeUpdate = () => setCurrentTime(video.currentTime)
handleTimeUpdate ==
  /\ previewTime' = videoTime
  /\ UNCHANGED <<previewDuration, videoTime, mediaDuration, markers>>
  /\ PlayerFrame

\* handleSeek: videoRef.current.currentTime = time; setCurrentTime(time)
handleSeek(time) ==
  /\ videoTime' = seekElement(time)
  /\ previewTime' = time
  /\ UNCHANGED <<previewDuration, mediaDuration, markers>>
  /\ PlayerFrame

\* handleRestart
handleRestart ==
  /\ videoTime' = 0
  /\ previewTime' = 0
  /\ UNCHANGED <<previewDuration, mediaDuration, markers>>
  /\ PlayerFrame

\* percent * duration for a click x ticks from the left of the bar
clickTime(x) == (x * previewDuration) \div BarWidth

\* the progress bar's onClick
progressBarClick(x) ==
  /\ x \in ClickXs
  /\ handleSeek(clickTime(x))

\* VideoTimeline.handleClick; the timeline is rendered when duration > 0
timelineClick(x) ==
  /\ previewDuration > 0
  /\ handleSeek(clickTime(x))

\* a key-moment or scene-change marker's onClick: onSeek(moment.timestamp)
markerClick(i) ==
  /\ previewDuration > 0
  /\ i \in 1..Len(markers)
  /\ handleSeek(markers[i])

MarkerSlots == 1..MaxMarkers

PlayerNext ==
  \/ handleLoadedMetadata
  \/ playback
  \/ handleTimeUpdate
  \/ handleRestart
  \/ \E x \in ClickXs : progressBarClick(x)
  \/ \E x \in ClickXs : timelineClick(x)
  \/ \E i \in MarkerSlots : markerClick(i)

\* ------------------------------------------------------ caption settings

Positions == {"top", "center", "bottom"}

FontSizes == {"small", "medium", "large", "xlarge"}

Styles == {"modern", "minimal", "bold", "subtitle"}

\* customPosition: undefined, or a point the caption was dragged to
CustomPositions == {NULL, "p1", "p2"}

\* useState<CaptionSettings>({ enabled: false, position: 'bottom', ... })
InitialCaptionSettings ==
  [enabled |-> FALSE, style |-> "modern", position |-> "bottom",
   highlightKeywords |-> FALSE, fontSize |-> "medium", customPosition |-> NULL]

SettingsParked == captionSettings = InitialCaptionSettings

SettingsInit == SettingsParked

\* the object updateSetting hands to onSettingsChange: { ...settings, [key]: value }
updateSetting(settings, key, value) == [settings EXCEPT ![key] = value]

\* the object resetPosition hands to onSettingsChange:
\* { ...settings, customPosition: undefined }
resetPosition(settings) == [settings EXCEPT !.customPosition = NULL]

\* onSettingsChange={setCaptionSettings} called with one object after
\* another in the same event: each call replaces the state, the last stays
setCaptionSettings(objects) == objects[Len(objects)]

\* a preset position button: updateSetting('position', pos.id); resetPosition();
\* both spread the settings prop of the render the button belongs to
presetClick(pos) ==
  /\ captionSettings' =
       setCaptionSettings(<<updateSetting(captionSettings, "position", pos),
                            resetPosition(captionSettings)>>)
  /\ SettingsFrame

\* the Reset button shown while there is a custom position
resetClick ==
  /\ captionSettings.customPosition # NULL
  /\ captionSettings' = setCaptionSettings(<<resetPosition(captionSettings)>>)
  /\ SettingsFrame

\* VideoPreview.handlePositionChange: the caption was dragged to a point
handlePositionChange(point) ==
  /\ captionSettings' =
       setCaptionSettings(<<updateSetting(captionSettings, "customPosition", point)>>)
  /\ SettingsFrame

\* the enabled switch
enabledChange(checked) ==
  /\ captionSettings' =
       setCaptionSettings(<<updateSetting(captionSettings, "enabled", checked)>>)
  /\ SettingsFrame

\* the style picker's onStyleChange
styleChange(style) ==
  /\ captionSettings' =
       setCaptionSettings(<<updateSetting(captionSettings, "style", style)>>)
  /\ SettingsFrame

\* a font size button
fontSizeClick(size) ==
  /\ captionSettings' =
       setCaptionSettings(<<updateSetting(captionSettings, "fontSize", size)>>)
  /\ SettingsFrame

\* the highlight-keywords switch
highlightChange(checked) ==
  /\ captionSettings' =
       setCaptionSettings(<<updateSetting(captionSettings, "highlightKeywords", checked)>>)
  /\ SettingsFrame

SettingsNext ==
  \/ \E pos \in Positions : presetClick(pos)
  \/ resetClick
  \/ \E point \in CustomPositions \ {NULL} : handlePositionChange(point)
  \/ \E checked \in BOOLEAN : enabledChange(checked)
  \/ \E style \in Styles : styleChange(style)
  \/ \E size \in FontSizes : fontSizeClick(size)
  \/ \E checked \in BOOLEAN : highlightChange(checked)

\* ------------------------------------------------- claims: chat stream

\* the text sendMessage leaves in the assistant message when the whole
\* payload arrives as one chunk
oneChunkText(p) ==
  Trim(stripFencedJson(processLines(appendChunk(<<>>, p), <<>>).assistantContent))

\* C5: whatever way the payload is split into consecutive chunks, the final
\* assistant message text is the text produced when the payload arrives as
\* one chunk
C5_ChunkingIndependent ==
  chatPc = "done" => finalText = oneChunkText(payload)

\* what reader.read() has delivered so far
consumed == SubSeq(payload, 1, Len(payload) - Len(stream))

LastIndexOf(s, x) ==
  IF x \in Range(s) THEN CHOOSE i \in 1..Len(s) : s[i] = x /\ \A j \in (i + 1)..Len(s) : s[j] # x
  ELSE 0

\* the complete lines among what has been delivered
deliveredLines == SubSeq(consumed, 1, LastIndexOf(consumed, LF))

\* bodies of well-formed data lines, each with a text delta, and the sentinel
WellFormed ==
  \E ls \in {<<>>} \cup SeqsUpTo({LineA, LineB}, MaxLines - 1) :
    payload = Bytes(ls \o <<LineDone>>)

\* C15: for a body of well-formed data lines followed by the sentinel, in any
\* chunking, the assistant content is at every moment the concatenation, in
\* arrival order, of the deltas of the lines delivered so far, the placeholder
\* message holds that text, and at the end of the stream it is the
\* concatenation of all deltas
C15_OrderedDeltas ==
  (WellFormed /\ chatPc \in {"streaming", "done"}) =>
    /\ assistantContent = SelectSeq(deliveredLines, LAMBDA tok : tok \in {"a", "b"})
    /\ chatPc = "streaming" => messages[Len(messages)].content = assistantContent
    /\ chatPc = "done" =>
         assistantContent = SelectSeq(payload, LAMBDA tok : tok \in {"a", "b"})

\* two deltas reassembled from several reads, the sentinel still incomplete
C15_Witness ==
  /\ chatPc = "streaming"
  /\ payload = Bytes(<<LineA, LineB, LineDone>>)
  /\ assistantContent = <<"a", "b">>
  /\ messages[Len(messages)].content = <<"a", "b">>
  /\ textBuffer = <<"data:", " ">>

\* the sentinel line has been delivered in full
DoneRead ==
  \E k \in 1..Len(consumed) :
    consumed[k] = "[DONE]" /\ \E j \in (k + 1)..Len(consumed) : consumed[j] = LF

\* C16: once the line 'data: [DONE]' has been read, no read appends a text
\* delta to the assistant message
C16_DoneStops ==
  [][\A n \in ChunkSizes :
       (readChunk(n) /\ DoneRead) => assistantContent' = assistantContent]_vars

\* where the first data line that does not parse starts in the body, 0 for none
BadLineAt ==
  LET starts == {k \in 1..(Len(payload) - Len(LineBad)) :
                   /\ SubSeq(payload, k, k + Len(LineBad) - 1) = LineBad
                   /\ payload[k + Len(LineBad)] = LF
                   /\ k = 1 \/ payload[k - 1] = LF}
  IN IF starts = {} THEN 0 ELSE CHOOSE k \in starts : \A j \in starts : k <= j

\* C17: once a data line that does not parse has been delivered, no sentinel
\* before it having stopped the loop short of parsing it, the text
\* buffer holds that line, its line feed, and everything delivered after it:
\* the line is at the front of the buffer for the next read, nothing after it
\* is processed, nothing of it is dropped, and no error is reported
C17_ParseFailureRebuffers ==
  (/\ chatPc = "streaming"
   /\ BadLineAt # 0
   /\ "[DONE]" \notin Range(SubSeq(payload, 1, BadLineAt))
   /\ Len(consumed) >= BadLineAt + Len(LineBad))
    => /\ textBuffer = SubSeq(consumed, BadLineAt, Len(consumed))
       /\ Len(messages) = 2
       /\ messages[2].status = "processing"
       /\ isProcessing

\* a delta, then a line that does not parse, then a delta that stays behind it
C17_Witness ==
  /\ chatPc = "streaming"
  /\ payload = Bytes(<<LineA, LineBad, LineA>>)
  /\ stream = <<>>
  /\ assistantContent = <<"a">>
  /\ textBuffer = Bytes(<<LineBad, LineA>>)

\* C28: once a sendMessage call has settled, by its normal path or by its
\* catch block, isProcessing is false and no message of the list has status
\* processing
C28_NoMessageLeftProcessing ==
  chatPc \in {"done", "failed"} =>
    /\ ~isProcessing
    /\ \A k \in 1..Len(messages) : messages[k].status # "processing"

\* the lines the body is made of
payloadLines ==
  CHOOSE ls \in {<<>>} \cup SeqsUpTo(Lines, MaxLines) : Bytes(ls) = payload

\* the deltas of the well-formed data lines that come before the sentinel
RECURSIVE deltasBeforeDone(_)
deltasBeforeDone(ls) ==
  IF ls = <<>> \/ Head(ls) = LineDone THEN <<>>
  ELSE (IF Head(ls) = LineA THEN <<"a">>
        ELSE IF Head(ls) = LineB THEN <<"b">>
        ELSE <<>>) \o deltasBeforeDone(Tail(ls))

\* C29: when the body holds a complete data line that does not parse, the
\* deltas of all well-formed data lines before the sentinel, those after the
\* malformed line included, have been appended by the time the stream ends
C29_MalformedLineSkipped ==
  (chatPc = "done" /\ BadLineAt # 0) =>
    assistantContent = deltasBeforeDone(payloadLines)

\* the fenced json blocks of a text: an opening fence at i, the next fence
\* of any kind at j, and a single object in between
BlockAt(text, i, j) ==
  /\ i < j
  /\ text[i] = FenceJson
  /\ text[j] \in Fences
  /\ \A k \in (i + 1)..(j - 1) : text[k] \notin Fences

OneBlockHolding(text, o) ==
  /\ Cardinality({i \in 1..Len(text) : text[i] = FenceJson}) = 1
  /\ \E i, j \in 1..Len(text) :
       /\ BlockAt(text, i, j)
       /\ SelectSeq(SubSeq(text, i + 1, j - 1), LAMBDA tok : tok # "n") = <<o>>

FirstBlockInvalid(text, i, j) ==
  /\ BlockAt(text, i, j)
  /\ \A k \in 1..(i - 1) : text[k] # FenceJson
  /\ ~ \E o \in Objects :
         SelectSeq(SubSeq(text, i + 1, j - 1), LAMBDA tok : tok # "n") = <<o>>

\* C18: when the assistant text has a fenced json block whose content is not
\* valid JSON, sendMessage ends by its normal path with no edit action and no
\* error message added, the assistant message is complete, isProcessing is
\* false, and with that block the only one the message holds the text around
\* it, trimmed
C18_BestEffortExtraction ==
  chatPc = "done" =>
    \A i, j \in 1..Len(assistantContent) :
      FirstBlockInvalid(assistantContent, i, j) =>
        /\ editAction = NoEditAction
        /\ Len(messages) = 2
        /\ messages[2].status = "complete"
        /\ ~messages[2].hasEditAction
        /\ ~isProcessing
        /\ (/\ assistantContent[j] = Fence
            /\ \A k \in (j + 1)..Len(assistantContent) : assistantContent[k] # FenceJson)
             => messages[2].content =
                  Trim(SubSeq(assistantContent, 1, i - 1)
                         \o SubSeq(assistantContent, j + 1, Len(assistantContent)))

\* text, then a fenced block holding prose instead of JSON
C18_Witness ==
  /\ chatPc = "done"
  /\ assistantContent = <<"w", FenceJson, "w", Fence>>
  /\ editAction = NoEditAction
  /\ messages[2].content = <<"w">>
  /\ messages[2].status = "complete"
  /\ ~isProcessing

\* -------------------------------------------------- claims: caption lookup

\* the positions of the segments with startTime <= t <= endTime
Containing(t) ==
  {k \in 1..Len(segments) : segments[k].startTime <= t /\ t <= segments[k].endTime}

\* C7: with a transcript and captions on, the lookup returns the first
\* segment in array order with startTime <= t <= endTime, and none when no
\* segment contains t or when there is nothing to look up
C7_PointLookup ==
  IF hasSegments /\ captionsEnabled /\ Containing(currentTime) # {}
  THEN /\ currentCaption \in Containing(currentTime)
       /\ \A k \in Containing(currentTime) : currentCaption <= k
  ELSE currentCaption = 0

C7_Witness ==
  /\ currentCaption = 1
  /\ Cardinality(Containing(currentTime)) = 2
  /\ currentTime = segments[1].endTime
  /\ segments[1].startTime < currentTime

\* ------------------------------------------------- claims: video analysis

\* C21: a failure of a remote-calling operation invoked from the UI is
\* caught by the operation or by its UI caller: no operation's rejection is
\* ever left unhandled
C21_NoUncaughtRejection == uncaught = {}

\* the five result slots of the analysis state
Results(a) ==
  <<a.transcription, a.pauses, a.keyMoments, a.sceneChanges, a.suggestedEdits>>

\* C22: when an earlier analysis had completed, a step of analyzeVideo or
\* generateCaptions that leaves the state in processing or in error leaves
\* the transcription, pauses, keyMoments, sceneChanges and suggestedEdits
\* obtained earlier in place, and a failure ends with status error and an
\* errorMessage
C22_FailureKeepsResults ==
  [][/\ (analysis.transcription # NULL /\ analysis'.status \in {"processing", "error"})
        => Results(analysis') = Results(analysis)
     /\ analysis'.status = "error" => analysis'.errorMessage # NULL]_vars

\* ------------------------------------------------- claims: playback position

\* C23: in every reachable state of the preview, 0 <= currentTime <= duration
C23_PlaybackTimeInvariant == 0 <= previewTime /\ previewTime <= previewDuration

\* ------------------------------------------------- claims: timeline gestures

\* C24: while a drag session is active, nothing starts a new session or
\* replaces the session's target, mode, pointer start or original bounds:
\* the session stays as it is until pointer-up ends it
C24_NoNestedDrag ==
  [][dragState # NoDrag => dragState' \in {dragState, NoDrag}]_vars

\* C25: the click that ends a drag gesture (pointer-down on a clip,
\* pointer-moves, pointer-up anywhere) never results in an onSeek call
C25_DragNeverSeeks == ~(lastSeek.called /\ lastSeek.gesture)

\* ------------------------------------------------- claims: caption settings

\* C30: a click on a preset position button leaves caption settings whose
\* position is the clicked preset, whose customPosition is cleared, and
\* whose other settings are unchanged
C30_PresetTakesEffect ==
  [][\A pos \in Positions :
       presetClick(pos)
         => captionSettings' =
              [captionSettings EXCEPT !.position = pos, !.customPosition = NULL]]_vars

\* ------------------------------------------------------- specifications

InitAnim == AnimInit /\ EnhParked /\ DragParked /\ ChatParked /\ CaptionParked /\ VideoParked /\ PlayerParked /\ GestureParked /\ SettingsParked

SpecAnim == InitAnim /\ [][AnimNext]_vars

InitEnh == EnhInit /\ AnimParked /\ DragParked /\ ChatParked /\ CaptionParked /\ VideoParked /\ PlayerParked /\ GestureParked /\ SettingsParked

SpecEnh == InitEnh /\ [][EnhNext]_vars

SpecTiming == InitEnh /\ [][TimingNext]_vars

InitDrag == DragInit /\ AnimParked /\ EnhParked /\ ChatParked /\ CaptionParked /\ VideoParked /\ PlayerParked /\ GestureParked /\ SettingsParked

SpecDrag == InitDrag /\ [][DragNext]_vars

InitChat == ChatInit /\ AnimParked /\ EnhParked /\ DragParked /\ CaptionParked /\ VideoParked /\ PlayerParked /\ GestureParked /\ SettingsParked

SpecChat == InitChat /\ [][ChatNext]_vars

InitExtract == ExtractInit /\ AnimParked /\ EnhParked /\ DragParked /\ CaptionParked /\ VideoParked /\ PlayerParked /\ GestureParked /\ SettingsParked

SpecExtract == InitExtract /\ [][ExtractNext]_vars

InitCaption == CaptionInit /\ AnimParked /\ EnhParked /\ DragParked /\ ChatParked /\ VideoParked /\ PlayerParked /\ GestureParked /\ SettingsParked

SpecCaption == InitCaption /\ [][CaptionNext]_vars

InitVideo == VideoInit /\ AnimParked /\ EnhParked /\ DragParked /\ ChatParked /\ CaptionParked /\ PlayerParked /\ GestureParked /\ SettingsParked

SpecGesture == InitDrag /\ [][GestureNext]_vars

InitSettings == SettingsInit /\ AnimParked /\ EnhParked /\ DragParked /\ ChatParked /\ CaptionParked /\ VideoParked /\ PlayerParked /\ GestureParked

SpecSettings == InitSettings /\ [][SettingsNext]_vars

SpecVideo == InitVideo /\ [][VideoNext]_vars

InitPlayer == PlayerInit /\ AnimParked /\ EnhParked /\ DragParked /\ ChatParked /\ CaptionParked /\ VideoParked /\ GestureParked /\ SettingsParked

SpecPlayer == InitPlayer /\ [][PlayerNext]_vars

====
